---------------------------- MODULE Spec2Model ----------------------------
(***************************************************************************)
(* Bangkok rail network spatial accessibility analysis                     *)
(* (src/spatial_analysis.py) as a state machine.                           *)
(*                                                                         *)
(* The script is one synchronous batch run: load the CSV, build the        *)
(* station/buffer features, compute the bounding box and grid, scan the    *)
(* grid for coverage, group the stations by branch, scan the branches for  *)
(* gaps, scan the coarse grid for isolated cells, build the convex hull,   *)
(* write the GeoJSON document, print the report.  Each of these blocks is  *)
(* one action; pc is the position of the run in the script.                *)
(*                                                                         *)
(* Number representation.  The script computes in binary floating point.   *)
(* The model computes in fixed point:                                      *)
(*   - latitudes and longitudes are integers in units of 1e-5 degree       *)
(*     (1370000 is 13.70000 degrees);                                      *)
(*   - km-space lengths are integers in metres, products with the          *)
(*     km-per-degree factors are floored to a whole metre;                 *)
(*   - values the script rounds to two decimals of a km (round(x, 2)) are  *)
(*     integers in units of 10 m.                                          *)
(* A station identifier is a sequence of one-character strings, so that    *)
(* the regular expression of branch_key can be evaluated on it.            *)
(***************************************************************************)
EXTENDS Integers, Sequences, FiniteSets, TLC

VARIABLES
    csv,                \* the input file dist/data.csv: [exists, rows]
    pc,                 \* position of the run in the script
    error,              \* the exception that ended the run, "none" if none
    stations,           \* list of loaded station records
    station_features,   \* point and buffer features, in construction order
    grid,               \* [min_lat, min_lng, n_rows, n_cols] of the bounding box
    stations_km,        \* station positions in km-space: <<sy, sx>> in metres
    covered_cells,      \* number of covered grid cells
    line_branch_groups, \* OrderedDict: sequence of [key, members]
    gaps_info,          \* list of gap records (metadata)
    gap_features,       \* gap line features, then desert zone features
    desert_zones,       \* the retained isolated cells, ranked
    hull_pts,           \* result of convex_hull
    hull_coords,        \* ring written into the footprint feature
    output              \* coverage.geojson: [written, features, gaps, total_stations]

vars == <<csv, pc, error, stations, station_features, grid, stations_km,
          covered_cells, line_branch_groups, gaps_info, gap_features,
          desert_zones, hull_pts, hull_coords, output>>

-----------------------------------------------------------------------------
(* Program constants, in the model's units.                                *)

\* KM_PER_DEG_LAT = 110.574: metres per degree of latitude
KM_PER_DEG_LAT == 110574
\* KM_PER_DEG_LNG = 107.551: metres per degree of longitude
KM_PER_DEG_LNG == 107551
\* BUFFER_KM = 1.0, in metres
BUFFER_KM == 1000
\* GAP_THRESHOLD_KM = 5.0, in metres
GAP_THRESHOLD_KM == 5000
\* CELL_SIZE_KM = 0.1, in metres
CELL_SIZE_KM == 100
\* range(0, n_rows, 5): the isolation scan samples every 5th row and column
SAMPLE_STEP == 5
\* desert_center_cells[:10]
TOP_N == 10
\* radius (2.0 km, in metres) and n_points of the desert zone disks
DESERT_RADIUS_KM == 2000
DESERT_N_POINTS == 48
\* default n_points of circle_polygon
CIRCLE_N_POINTS == 64
\* R = 6371.0 of haversine_km: metres of great circle per degree (R * pi / 180)
HAV_M_PER_DEG == 111195
\* cos(radians(lat1)) * cos(radians(lat2)) of haversine_km at Bangkok's latitude
\* (13.7 degrees): metres of great circle per degree of longitude there
HAV_M_PER_DEG_LNG == 108031

-----------------------------------------------------------------------------
(* Arithmetic helpers.                                                     *)

Min(S) == CHOOSE x \in S : \A y \in S : x <= y
Max(S) == CHOOSE x \in S : \A y \in S : x >= y

\* math.ceil(a / b) for a >= 0, b > 0
CeilDiv(a, b) == (a + b - 1) \div b

RECURSIVE SqrtSearch(_, _, _)
SqrtSearch(n, lo, hi) ==
    IF lo >= hi THEN lo
    ELSE LET mid == (lo + hi + 1) \div 2
         IN  IF mid * mid <= n THEN SqrtSearch(n, mid, hi)
             ELSE SqrtSearch(n, lo, mid - 1)

\* math.sqrt floored to a whole metre (n < 2^31, so the root is below 46341)
Sqrt(n) == SqrtSearch(n, 0, 46340)

\* round(x, 2) of a length x given in metres: the result in units of 10 m
Round2(m) == (m + 5) \div 10

Range(s) == {s[i] : i \in 1..Len(s)}


-----------------------------------------------------------------------------
(* Pure functions of the script.                                           *)

\* float(row["geoLat"]): a coordinate text is <<v>> when it is a decimal
\* number (v its value in 1e-5 degree) and <<>> when float() rejects it
IsNumeric(text) == Len(text) = 1
float(text) == text[1]

\* (delta degrees) * (metres per degree), floored to a whole metre
DegToM(d, m_per_deg) == (d * m_per_deg) \div 100000

Abs(x) == IF x < 0 THEN -x ELSE x

\* haversine_km: great-circle distance in metres.  Over the few km the
\* script measures, the haversine formula with R = 6371 is the equirectangular
\* distance to well under a metre.
haversine_km(lat1, lng1, lat2, lng2) ==
    LET dy == DegToM(Abs(lat2 - lat1), HAV_M_PER_DEG)
        dx == DegToM(Abs(lng2 - lng1), HAV_M_PER_DEG_LNG)
    IN  Sqrt(dy * dy + dx * dx)

\* circle_polygon: the ring of n_points + 1 vertices around (lat, lng).  The
\* vertices are sines and cosines; the model keeps the ring's parameters.
circle_polygon(lat, lng, radius_km, n_points) ==
    [center |-> <<lng, lat>>, radius_km |-> radius_km, vertices |-> n_points + 1]

\* [A-Z]
IsUpper(ch) ==
    ch \in {"A", "B", "C", "D", "E", "F", "G", "H", "I", "J", "K", "L", "M",
            "N", "O", "P", "Q", "R", "S", "T", "U", "V", "W", "X", "Y", "Z"}

\* r"([A-Z])": one capital instead of the whole run
MatchUpperOne(id, n) ==
    IF n < Len(id) /\ IsUpper(id[n + 1]) THEN 1 ELSE 0

\* re.match(r"([A-Z]+)", id): length of the match at the start of id, 0 if none
RECURSIVE MatchUpper(_, _)
MatchUpper(id, n) ==
    IF n < Len(id) /\ IsUpper(id[n + 1]) THEN MatchUpper(id, n + 1) ELSE n

\* branch_key
branch_key(station) ==
    LET m == MatchUpper(station.stationId, 0)
    IN  IF m > 0 THEN SubSeq(station.stationId, 1, m) ELSE station.stationId

\* cross
cross(o, a, b) ==
    (a[1] - o[1]) * (b[2] - o[2]) - (a[2] - o[2]) * (b[1] - o[1])

\* tuple comparison of Python: (x, y) < (x', y')
TupleLess(p, q) == p[1] < q[1] \/ (p[1] = q[1] /\ p[2] < q[2])

\* sorted(set(points))
RECURSIVE SortedSet(_)
SortedSet(S) ==
    IF S = {} THEN <<>>
    ELSE LET m == CHOOSE p \in S : \A q \in S : p = q \/ TupleLess(p, q)
         IN  <<m>> \o SortedSet(S \ {m})

Reverse(s) == [i \in 1..Len(s) |-> s[Len(s) + 1 - i]]
ButLast(s) == SubSeq(s, 1, Len(s) - 1)

\* the pop on a clockwise turn only (cross < 0): collinear points stay
RECURSIVE PopWhileStrict(_, _)
PopWhileStrict(chain, p) ==
    IF Len(chain) >= 2 /\ cross(chain[Len(chain) - 1], chain[Len(chain)], p) < 0
    THEN PopWhileStrict(ButLast(chain), p)
    ELSE chain

\* while len(chain) >= 2 and cross(chain[-2], chain[-1], p) <= 0: chain.pop()
RECURSIVE PopWhile(_, _)
PopWhile(chain, p) ==
    IF Len(chain) >= 2 /\ cross(chain[Len(chain) - 1], chain[Len(chain)], p) <= 0
    THEN PopWhile(ButLast(chain), p)
    ELSE chain

\* for p in points: (pop while ...); chain.append(p)
RECURSIVE BuildChain(_, _, _)
BuildChain(points, i, chain) ==
    IF i > Len(points) THEN chain
    ELSE BuildChain(points, i + 1, Append(PopWhile(chain, points[i]), points[i]))

\* convex_hull: the argument is the list of (x, y) tuples
convex_hull(pts) ==
    LET points == SortedSet(Range(pts))
    IN  IF Len(points) <= 1 THEN points
        ELSE LET lower == BuildChain(points, 1, <<>>)
                 upper == BuildChain(Reverse(points), 1, <<>>)
             IN  ButLast(lower) \o ButLast(upper)


-----------------------------------------------------------------------------
(* Section 2: station point and buffer features.                           *)

StationFeature(s) ==
    [type |-> "station", stationId |-> s.stationId, name |-> s.nameEng,
     line |-> s.lineNameEng,
     geometry |-> [type |-> "Point", coordinates |-> <<s.lng, s.lat>>]]

BufferFeature(s) ==
    [type |-> "buffer_1km", stationId |-> s.stationId, name |-> s.nameEng,
     line |-> s.lineNameEng, radius_km |-> BUFFER_KM,
     geometry |-> [type |-> "Polygon",
                   coordinates |-> circle_polygon(s.lat, s.lng, BUFFER_KM,
                                                  CIRCLE_N_POINTS)]]

\* for s in stations: append the point feature, then the buffer feature
RECURSIVE BuildStationFeatures(_, _, _)
BuildStationFeatures(sts, i, acc) ==
    IF i > Len(sts) THEN acc
    ELSE BuildStationFeatures(sts, i + 1,
             Append(Append(acc, StationFeature(sts[i])), BufferFeature(sts[i])))

-----------------------------------------------------------------------------
(* Section 3: bounding box, grid and coverage scan.                        *)

\* BUFFER_KM / KM_PER_DEG_LAT and BUFFER_KM / KM_PER_DEG_LNG, in 1e-5 degree
BufferDegLat == (BUFFER_KM * 100000) \div KM_PER_DEG_LAT
BufferDegLng == (BUFFER_KM * 100000) \div KM_PER_DEG_LNG

\* min_lat, max_lat, min_lng, max_lng, n_rows, n_cols (sts is not empty)
BoundingGrid(sts) ==
    LET all_lats == {sts[i].lat : i \in 1..Len(sts)}
        all_lngs == {sts[i].lng : i \in 1..Len(sts)}
        min_lat == Min(all_lats) - BufferDegLat
        max_lat == Max(all_lats) + BufferDegLat
        min_lng == Min(all_lngs) - BufferDegLng
        max_lng == Max(all_lngs) + BufferDegLng
    IN  [min_lat |-> min_lat, min_lng |-> min_lng,
         n_rows |-> CeilDiv(DegToM(max_lat - min_lat, KM_PER_DEG_LAT), CELL_SIZE_KM),
         n_cols |-> CeilDiv(DegToM(max_lng - min_lng, KM_PER_DEG_LNG), CELL_SIZE_KM)]

\* stations_km: (sy, sx) of every station relative to the bbox origin
StationsKm(sts, g) ==
    [i \in 1..Len(sts) |->
        <<DegToM(sts[i].lat - g.min_lat, KM_PER_DEG_LAT),
          DegToM(sts[i].lng - g.min_lng, KM_PER_DEG_LNG)>>]

\* r * CELL_SIZE_KM + CELL_SIZE_KM / 2
CellCenter(k) == k * CELL_SIZE_KM + CELL_SIZE_KM \div 2

\* (x - sx) ** 2 + (y - sy) ** 2 <= BUFFER_KM ** 2
InDisk(x, y, skm) ==
    (x - skm[2]) * (x - skm[2]) + (y - skm[1]) * (y - skm[1])
        <= BUFFER_KM * BUFFER_KM

\* the station loop without its break: one count per disk that holds the cell
RECURSIVE CellScanNoBreak(_, _, _, _)
CellScanNoBreak(x, y, skm, i) ==
    IF i > Len(skm) THEN 0
    ELSE (IF InDisk(x, y, skm[i]) THEN 1 ELSE 0) + CellScanNoBreak(x, y, skm, i + 1)

\* for (sy, sx) in stations_km: if inside: covered_cells += 1; break
\* The value is what one cell adds to covered_cells.
RECURSIVE CellScan(_, _, _, _)
CellScan(x, y, skm, i) ==
    IF i > Len(skm) THEN 0
    ELSE IF InDisk(x, y, skm[i]) THEN 1
    ELSE CellScan(x, y, skm, i + 1)

\* for c in range(n_cols): what the cells lo .. hi - 1 of the row at y add to
\* covered_cells.  The loop's sum is evaluated by halves.
RECURSIVE RowScan(_, _, _, _)
RowScan(y, skm, lo, hi) ==
    IF hi <= lo THEN 0
    ELSE IF hi = lo + 1 THEN CellScan(CellCenter(lo), y, skm, 1)
    ELSE LET mid == (lo + hi) \div 2
         IN  RowScan(y, skm, lo, mid) + RowScan(y, skm, mid, hi)

\* for r in range(n_rows): what the rows lo .. hi - 1 add to covered_cells
RECURSIVE RowsScan(_, _, _, _)
RowsScan(skm, n_cols, lo, hi) ==
    IF hi <= lo THEN 0
    ELSE IF hi = lo + 1 THEN RowScan(CellCenter(lo), skm, 0, n_cols)
    ELSE LET mid == (lo + hi) \div 2
         IN  RowsScan(skm, n_cols, lo, mid) + RowsScan(skm, n_cols, mid, hi)

\* lines 156-164: covered_cells after the scan of the whole grid
GridScan(skm, n_rows, n_cols) == RowsScan(skm, n_cols, 0, n_rows)

\* the whole of section 3 for a station list: covered_cells
CoveredCells(sts) ==
    LET g == BoundingGrid(sts)
    IN  GridScan(StationsKm(sts, g), g.n_rows, g.n_cols)

-----------------------------------------------------------------------------
(* Section 4: branch groups and the adjacent-gap scan.                     *)

\* line_branch_groups.setdefault(key, []).append(s) on the OrderedDict,
\* a sequence of [key, members] in insertion order of the keys
SetDefaultAppend(groups, key, s) ==
    IF \E k \in 1..Len(groups) : groups[k].key = key
    THEN [k \in 1..Len(groups) |->
            IF groups[k].key = key
            THEN [groups[k] EXCEPT !.members = Append(@, s)]
            ELSE groups[k]]
    ELSE Append(groups, [key |-> key, members |-> <<s>>])

\* for s in stations: key = (line, branch_key(s)); setdefault(key, []).append(s)
RECURSIVE GroupStations(_, _, _)
GroupStations(sts, i, groups) ==
    IF i > Len(sts) THEN groups
    ELSE GroupStations(sts, i + 1,
             SetDefaultAppend(groups, <<sts[i].lineNameEng, branch_key(sts[i])>>,
                              sts[i]))

\* dist > GAP_THRESHOLD_KM: the threshold excluded
IsGapExclusive(dist) == dist > GAP_THRESHOLD_KM

\* dist >= GAP_THRESHOLD_KM
IsGap(dist) == dist >= GAP_THRESHOLD_KM

GapInfo(key, a, b, dist) ==
    [line |-> key[1], branch |-> key[2], from |-> a.nameEng, to |-> b.nameEng,
     distance_km |-> Round2(dist)]

GapFeature(key, a, b, dist) ==
    [type |-> "transit_desert_gap", line |-> key[1],
     from_station |-> a.nameEng, to_station |-> b.nameEng,
     gap_km |-> Round2(dist),
     geometry |-> [type |-> "LineString",
                   coordinates |-> <<<<a.lng, a.lat>>, <<b.lng, b.lat>>>>]]

\* for i in range(len(line_stations) - 1): the pairs of one branch.
\* acc is <<gaps_info, gap_features>>.
RECURSIVE ScanBranch(_, _, _, _)
ScanBranch(key, line_stations, i, acc) ==
    IF i > Len(line_stations) - 1 THEN acc
    ELSE LET a == line_stations[i]
             b == line_stations[i + 1]
             dist == haversine_km(a.lat, a.lng, b.lat, b.lng)
         IN  ScanBranch(key, line_stations, i + 1,
                 IF IsGap(dist)
                 THEN <<Append(acc[1], GapInfo(key, a, b, dist)),
                        Append(acc[2], GapFeature(key, a, b, dist))>>
                 ELSE acc)

\* for (line_name, branch), line_stations in line_branch_groups.items()
RECURSIVE ScanGroups(_, _, _)
ScanGroups(groups, k, acc) ==
    IF k > Len(groups) THEN acc
    ELSE ScanGroups(groups, k + 1,
                    ScanBranch(groups[k].key, groups[k].members, 1, acc))


-----------------------------------------------------------------------------
(* Section 4, second half: the isolation scan.                             *)

\* min(math.sqrt((x_km - sx) ** 2 + (y_km - sy) ** 2) for (sy, sx) in stations_km).
\* The square root is monotone: the least root is the root of the least square.
MinDist(x, y, skm) ==
    Sqrt(Min({(x - skm[i][2]) * (x - skm[i][2]) + (y - skm[i][1]) * (y - skm[i][1])
                 : i \in 1..Len(skm)}))

\* min_dist >= GAP_THRESHOLD_KM
IsIsolated(min_dist) == min_dist >= GAP_THRESHOLD_KM

\* the dict appended to desert_center_cells for the cell (r, c)
DesertCell(g, r, c, min_dist) ==
    [lat |-> g.min_lat + (CellCenter(r) * 100000) \div KM_PER_DEG_LAT,
     lng |-> g.min_lng + (CellCenter(c) * 100000) \div KM_PER_DEG_LNG,
     nearest_km |-> Round2(min_dist)]

\* range(0, n, 5): the number of sampled indices below n
SampleCount(n) == CeilDiv(n, SAMPLE_STEP)

\* the sampled cells (r, c) in the order the two loops visit them: row-major
SampleCells(g) ==
    LET nc == SampleCount(g.n_cols)
    IN  [k \in 1..(SampleCount(g.n_rows) * nc) |->
            <<SAMPLE_STEP * ((k - 1) \div nc), SAMPLE_STEP * ((k - 1) % nc)>>]

\* desert_center_cells before the sort: the sampled cells that pass the
\* threshold test, in visiting order
DesertCenterCells(g, skm) ==
    LET cells == SampleCells(g)
        dist(rc) == MinDist(CellCenter(rc[2]), CellCenter(rc[1]), skm)
        kept == SelectSeq(cells, LAMBDA rc : IsIsolated(dist(rc)))
    IN  [k \in 1..Len(kept) |-> DesertCell(g, kept[k][1], kept[k][2], dist(kept[k]))]

\* the key of the sort: d["nearest_km"]
SortKey(d) == d.nearest_km

\* list.sort(key=..., reverse=True) is stable: an element moves behind every
\* element with a larger key and every earlier element with an equal key
SortedPos(cells, i) ==
    1 + Cardinality({j \in 1..Len(cells) :
                        \/ SortKey(cells[j]) > SortKey(cells[i])
                        \/ SortKey(cells[j]) = SortKey(cells[i]) /\ j < i})

SortDesc(cells) ==
    [p \in 1..Len(cells) |->
        cells[CHOOSE i \in 1..Len(cells) : SortedPos(cells, i) = p]]

\* desert_center_cells[:10]
TopN(cells) == SubSeq(cells, 1, IF Len(cells) < TOP_N THEN Len(cells) ELSE TOP_N)

\* desert_zones
DesertZones(g, skm) == TopN(SortDesc(DesertCenterCells(g, skm)))

\* for i, dz in enumerate(desert_zones): the zone feature of rank i + 1
ZoneFeature(i, dz) ==
    [type |-> "transit_desert_zone", rank |-> i,
     nearest_station_km |-> dz.nearest_km,
     geometry |-> [type |-> "Polygon",
                   coordinates |-> circle_polygon(dz.lat, dz.lng, DESERT_RADIUS_KM,
                                                  DESERT_N_POINTS)]]

-----------------------------------------------------------------------------
(* Section 5 and 6: footprint and document.                                *)

NetworkFootprint(coords) ==
    [type |-> "network_footprint",
     geometry |-> [type |-> "Polygon", coordinates |-> coords]]

\* the gap and zone features ahead of the station features
AssembleFeaturesGapsFirst(footprint, st_features, g_features) ==
    <<footprint>> \o g_features \o st_features

\* "features": [network_footprint] + station_features + gap_features
AssembleFeatures(footprint, st_features, g_features) ==
    <<footprint>> \o st_features \o g_features

NoOutput == [written |-> FALSE, features |-> <<>>, transit_desert_gaps |-> <<>>,
             total_stations |-> 0, transit_coverage_sqkm |-> 0]


-----------------------------------------------------------------------------
(* The run.                                                                *)

\* number of rows before the first one whose geoLat or geoLng float() rejects
RECURSIVE GoodPrefix(_, _)
GoodPrefix(rows, n) ==
    IF n < Len(rows) /\ IsNumeric(rows[n + 1].geoLat) /\ IsNumeric(rows[n + 1].geoLng)
    THEN GoodPrefix(rows, n + 1)
    ELSE n

\* the dict appended to stations for one row
StationOf(row) ==
    [stationId |-> row.stationId, nameEng |-> row.nameEng,
     lineNameEng |-> row.lineNameEng,
     lat |-> float(row.geoLat), lng |-> float(row.geoLng)]

Raise(exc) ==
    /\ pc' = "aborted"
    /\ error' = exc

\* the output file opened for writing before the input is read
LoadOpensOutput ==
    /\ pc = "load"
    /\ output' = [NoOutput EXCEPT !.written = TRUE]
    /\ IF ~csv.exists
       THEN /\ Raise("FileNotFoundError")
            /\ UNCHANGED stations
       ELSE LET n == GoodPrefix(csv.rows, 0)
            IN  /\ stations' = [i \in 1..n |-> StationOf(csv.rows[i])]
                /\ IF n < Len(csv.rows)
                   THEN Raise("ValueError: could not convert string to float")
                   ELSE pc' = "buffers" /\ UNCHANGED error
    /\ UNCHANGED <<csv, station_features, grid, stations_km, covered_cells,
                   line_branch_groups, gaps_info, gap_features, desert_zones,
                   hull_pts, hull_coords>>

\* Section 1: open(DATA_PATH) raises when the file is missing; float() raises
\* on the first malformed coordinate, after the rows before it were appended.
Load ==
    /\ pc = "load"
    /\ IF ~csv.exists
       THEN /\ Raise("FileNotFoundError")
            /\ UNCHANGED stations
       ELSE LET n == GoodPrefix(csv.rows, 0)
            IN  /\ stations' = [i \in 1..n |-> StationOf(csv.rows[i])]
                /\ IF n < Len(csv.rows)
                   THEN Raise("ValueError: could not convert string to float")
                   ELSE pc' = "buffers" /\ UNCHANGED error
    /\ UNCHANGED <<csv, station_features, grid, stations_km, covered_cells,
                   line_branch_groups, gaps_info, gap_features, desert_zones,
                   hull_pts, hull_coords, output>>

\* Section 2
BuildBuffers ==
    /\ pc = "buffers"
    /\ station_features' = BuildStationFeatures(stations, 1, <<>>)
    /\ pc' = "bbox"
    /\ UNCHANGED <<csv, error, stations, grid, stations_km, covered_cells,
                   line_branch_groups, gaps_info, gap_features, desert_zones,
                   hull_pts, hull_coords, output>>

\* Section 3, lines 132-154: min() and max() raise on an empty list
BoundingBox ==
    /\ pc = "bbox"
    /\ IF stations = <<>>
       THEN /\ Raise("ValueError: min() arg is an empty sequence")
            /\ UNCHANGED <<grid, stations_km>>
       ELSE /\ grid' = BoundingGrid(stations)
            /\ stations_km' = StationsKm(stations, grid')
            /\ pc' = "coverage"
            /\ UNCHANGED error
    /\ UNCHANGED <<csv, stations, station_features, covered_cells,
                   line_branch_groups, gaps_info, gap_features, desert_zones,
                   hull_pts, hull_coords, output>>

\* Section 3, lines 156-167
CoverageScan ==
    /\ pc = "coverage"
    /\ covered_cells' = GridScan(stations_km, grid.n_rows, grid.n_cols)
    /\ pc' = "group"
    /\ UNCHANGED <<csv, error, stations, station_features, grid, stations_km,
                   line_branch_groups, gaps_info, gap_features, desert_zones,
                   hull_pts, hull_coords, output>>

\* Section 4, lines 196-199
GroupBranches ==
    /\ pc = "group"
    /\ line_branch_groups' = GroupStations(stations, 1, <<>>)
    /\ pc' = "gaps"
    /\ UNCHANGED <<csv, error, stations, station_features, grid, stations_km,
                   covered_cells, gaps_info, gap_features, desert_zones,
                   hull_pts, hull_coords, output>>

\* Section 4, lines 201-234
GapScan ==
    /\ pc = "gaps"
    /\ LET found == ScanGroups(line_branch_groups, 1, <<<<>>, <<>>>>)
       IN  /\ gaps_info' = found[1]
           /\ gap_features' = found[2]
    /\ pc' = "isolation"
    /\ UNCHANGED <<csv, error, stations, station_features, grid, stations_km,
                   covered_cells, line_branch_groups, desert_zones,
                   hull_pts, hull_coords, output>>

\* Section 4, lines 239-277: sample, sort, truncate, append the zone features
IsolationScan ==
    /\ pc = "isolation"
    /\ desert_zones' = DesertZones(grid, stations_km)
    /\ gap_features' = gap_features \o
            [i \in 1..Len(desert_zones') |-> ZoneFeature(i, desert_zones'[i])]
    /\ pc' = "hull"
    /\ UNCHANGED <<csv, error, stations, station_features, grid, stations_km,
                   covered_cells, line_branch_groups, gaps_info,
                   hull_pts, hull_coords, output>>

\* hull_coords.append(hull_coords[0]): the ring closure
CloseRing(coords) == Append(coords, coords[1])

\* Section 5, lines 324-340: hull_coords[0] raises on an empty hull
HullStage ==
    /\ pc = "hull"
    /\ hull_pts' = convex_hull([i \in 1..Len(stations) |->
                                    <<stations[i].lng, stations[i].lat>>])
    /\ IF hull_pts' = <<>>
       THEN /\ Raise("IndexError: list index out of range")
            /\ hull_coords' = <<>>
       ELSE /\ hull_coords' = CloseRing(hull_pts')
            /\ pc' = "write"
            /\ UNCHANGED error
    /\ UNCHANGED <<csv, stations, station_features, grid, stations_km,
                   covered_cells, line_branch_groups, gaps_info, gap_features,
                   desert_zones, output>>

\* Section 6, lines 345-367: assemble the document and write it
WriteOutput ==
    /\ pc = "write"
    /\ output' = [written |-> TRUE,
                  features |-> AssembleFeatures(NetworkFootprint(hull_coords),
                                                station_features, gap_features),
                  transit_desert_gaps |-> gaps_info,
                  total_stations |-> Len(stations),
                  transit_coverage_sqkm |-> covered_cells]
    /\ pc' = "report"
    /\ UNCHANGED <<csv, error, stations, station_features, grid, stations_km,
                   covered_cells, line_branch_groups, gaps_info, gap_features,
                   desert_zones, hull_pts, hull_coords>>

\* Section 7: the recommendations are printed and the script ends
Report ==
    /\ pc = "report"
    /\ pc' = "done"
    /\ UNCHANGED <<csv, error, stations, station_features, grid, stations_km,
                   covered_cells, line_branch_groups, gaps_info, gap_features,
                   desert_zones, hull_pts, hull_coords, output>>

Next ==
    \/ Load
    \/ BuildBuffers
    \/ BoundingBox
    \/ CoverageScan
    \/ GroupBranches
    \/ GapScan
    \/ IsolationScan
    \/ HullStage
    \/ WriteOutput
    \/ Report

\* the state when the interpreter starts the script on the file f
InitOn(files) ==
    /\ csv \in files
    /\ pc = "load"
    /\ error = "none"
    /\ stations = <<>>
    /\ station_features = <<>>
    /\ grid = [min_lat |-> 0, min_lng |-> 0, n_rows |-> 0, n_cols |-> 0]
    /\ stations_km = <<>>
    /\ covered_cells = 0
    /\ line_branch_groups = <<>>
    /\ gaps_info = <<>>
    /\ gap_features = <<>>
    /\ desert_zones = <<>>
    /\ hull_pts = <<>>
    /\ hull_coords = <<>>
    /\ output = NoOutput

-----------------------------------------------------------------------------
(* Input files.                                                            *)

Row(id, name, line, lat, lng) ==
    [stationId |-> id, nameEng |-> name, lineNameEng |-> line,
     geoLat |-> lat, geoLng |-> lng]

\* every file of at most n rows taken from rows
FilesOf(rows, n) ==
    {[exists |-> TRUE, rows |-> r] : r \in UNION {[1..k -> rows] : k \in 0..n}}

MissingFile == [exists |-> FALSE, rows |-> <<>>]

\* largest number of rows of an input file
MaxRows == 3

\* Two Green-line stations of branch N 10 km apart, a Blue-line station off
\* their line, and a row with a malformed latitude.
PipelineRows ==
    {Row(<<"N", "1">>, "Mo Chit", "Green", <<1370000>>, <<10050000>>),
     Row(<<"N", "2">>, "Khu Khot", "Green", <<1372000>>, <<10059000>>),
     Row(<<"B", "L", "0", "1">>, "Tha Phra", "Blue", <<1371000>>, <<10051000>>),
     Row(<<"B", "L", "0", "2">>, "Lak Song", "Blue", <<>>, <<10051000>>)}

Init == InitOn(FilesOf(PipelineRows, MaxRows) \cup {MissingFile})

Spec == Init /\ [][Next]_vars

\* every file of at most n rows taken from rows, no row twice
DistinctFilesOf(rows, n) ==
    {f \in FilesOf(rows, n) :
        \A i, j \in 1..Len(f.rows) : i # j => f.rows[i] # f.rows[j]}

\* largest number of rows of an input file of the grouping runs
MaxGroupRows == 4

\* Identifiers of every shape on two lines, all at one place:
\* N1, N2 (one branch), BL01, BL02 (one branch), B1 (prefix B, not BL),
\* N1 on the other line, 1N (no leading capital), and the empty identifier.
GroupRows ==
    {Row(<<"N", "1">>, "Mo Chit", "Green", <<1370000>>, <<10050000>>),
     Row(<<"N", "2">>, "Saphan Khwai", "Green", <<1370000>>, <<10050000>>),
     Row(<<"B", "L", "0", "1">>, "Tha Phra", "Blue", <<1370000>>, <<10050000>>),
     Row(<<"B", "L", "0", "2">>, "Charan 13", "Blue", <<1370000>>, <<10050000>>),
     Row(<<"B", "1">>, "Bang Wa", "Blue", <<1370000>>, <<10050000>>),
     Row(<<"N", "1">>, "Mo Chit", "Blue", <<1370000>>, <<10050000>>),
     Row(<<"1", "N">>, "Depot", "Green", <<1370000>>, <<10050000>>),
     Row(<<>>, "Unnamed", "Green", <<1370000>>, <<10050000>>)}

InitGroups == InitOn(DistinctFilesOf(GroupRows, MaxGroupRows))

SpecGroups == InitGroups /\ [][Next]_vars

\* largest number of rows of an input file of the gap runs
MaxGapRows == 3

\* Stations along one meridian: branch N of the Green line at 13.70, 13.72
\* and 13.80 degrees (2.2 km and 8.9 km apart), at 13.74497 and 13.74496
\* (5000 m and 4999 m from the first), and a Blue-line station at 13.80.
GapRows ==
    {Row(<<"N", "1">>, "Mo Chit", "Green", <<1370000>>, <<10050000>>),
     Row(<<"N", "2">>, "Saphan Khwai", "Green", <<1372000>>, <<10050000>>),
     Row(<<"N", "3">>, "Khu Khot", "Green", <<1380000>>, <<10050000>>),
     Row(<<"N", "4">>, "Ari", "Green", <<1374497>>, <<10050000>>),
     Row(<<"N", "5">>, "Sanam Pao", "Green", <<1374496>>, <<10050000>>),
     Row(<<"B", "L", "0", "1">>, "Tha Phra", "Blue", <<1380000>>, <<10050000>>)}

InitGaps == InitOn(FilesOf(GapRows, MaxGapRows))

SpecGaps == InitGaps /\ [][Next]_vars

\* largest number of rows of an input file of the coverage runs
MaxCoverageRows == 3

\* Four stations whose disks overlap (two of them at the same place, an
\* interchange) and one 3 km to the north whose disk is apart from the rest.
CoverageRows ==
    {Row(<<"N", "1">>, "Mo Chit", "Green", <<1370300>>, <<10050150>>),
     Row(<<"B", "L", "0", "1">>, "Chatuchak Park", "Blue", <<1370300>>, <<10050150>>),
     Row(<<"N", "2">>, "Saphan Khwai", "Green", <<1370300>>, <<10050550>>),
     Row(<<"N", "3">>, "Ari", "Green", <<1370250>>, <<10050450>>),
     Row(<<"N", "4">>, "Khu Khot", "Green", <<1373000>>, <<10050450>>)}

InitCoverage == InitOn(DistinctFilesOf(CoverageRows, MaxCoverageRows))

SpecCoverage == InitCoverage /\ [][Next]_vars

\* largest number of distinct station positions of the hull runs
MaxHullPoints == 5

\* the lattice of 3 x 3 positions, 0.001 degree apart
HullLattice ==
    {<<1370000 + 100 * i, 10050000 + 100 * j>> : i \in 0..2, j \in 0..2}

\* the positions of P as rows, from the north-east down to the south-west
RECURSIVE RowsOfPositions(_)
RowsOfPositions(P) ==
    IF P = {} THEN <<>>
    ELSE LET m == CHOOSE p \in P : \A q \in P : p = q \/ TupleLess(q, p)
         IN  <<Row(<<"N", "1">>, "Station", "Green", <<m[1]>>, <<m[2]>>)>>
                 \o RowsOfPositions(P \ {m})

\* one file per set of at most MaxHullPoints positions, and the same file
\* with its first row repeated at the end
HullFiles ==
    LET sets == {P \in SUBSET HullLattice : Cardinality(P) <= MaxHullPoints}
    IN  {[exists |-> TRUE, rows |-> RowsOfPositions(P)] : P \in sets}
          \cup {[exists |-> TRUE,
                 rows |-> Append(RowsOfPositions(P), RowsOfPositions(P)[1])]
                   : P \in sets \ {{}}}

InitHull == InitOn(HullFiles)

SpecHull == InitHull /\ [][Next]_vars

-----------------------------------------------------------------------------
(* Properties of the whole run, checked under Spec.                        *)

Loaded == pc \notin {"load"} /\ error \notin
            {"FileNotFoundError", "ValueError: could not convert string to float"}

AfterHull == pc \in {"write", "report", "done"}

\* C4 (as claimed): a run on an empty station list does not raise; it ends
\* with zero grid cells, zero coverage, no gaps, no zones and an empty hull.
C4_EmptyListDoesNotRaise ==
    (csv.exists /\ csv.rows = <<>>) =>
        /\ pc # "aborted"
        /\ error = "none"
        /\ pc = "done" =>
              /\ grid.n_rows * grid.n_cols = 0
              /\ covered_cells = 0
              /\ gaps_info = <<>>
              /\ desert_zones = <<>>
              /\ hull_pts = <<>>

\* the distinct positions handed to convex_hull
StationPoints == {<<stations[i].lng, stations[i].lat>> : i \in 1..Len(stations)}

Collinear(P) == \A a, b, c \in P : cross(a, b, c) = 0

\* C10 (as claimed): once the footprint is built, 0 or 1 distinct points are
\* returned unchanged, no ring closure is made on fewer than 3 hull points,
\* and a hull of 3 or more non-collinear points is closed by repeating its
\* first vertex exactly once.
C10_HullDegeneracyAndClosure ==
    AfterHull =>
        /\ Cardinality(StationPoints) <= 1 => Range(hull_pts) = StationPoints
        /\ Len(hull_pts) < 3 => hull_coords = hull_pts
        /\ (Cardinality(StationPoints) >= 3 /\ ~Collinear(StationPoints)) =>
              /\ Len(hull_coords) = Len(hull_pts) + 1
              /\ hull_coords[Len(hull_coords)] = hull_coords[1]
              /\ \A i, j \in 1..Len(hull_pts) : i # j => hull_coords[i] # hull_coords[j]

\* position of a feature type in the order the document promises
FeatureClass(f) ==
    CASE f.type = "network_footprint" -> 1
      [] f.type \in {"station", "buffer_1km"} -> 2
      [] f.type = "transit_desert_gap" -> 3
      [] f.type = "transit_desert_zone" -> 4

\* C6: the written feature list is the hull feature, then for every station
\* in input order its point feature immediately followed by its own buffer
\* feature, then every gap line, then the desert zones in rank order 1..K.
C6_FeatureOrder ==
    output.written =>
        LET f == output.features
            n == Len(stations)
            g == Len(gaps_info)
            k == Len(desert_zones)
        IN  /\ Len(f) = 1 + 2 * n + g + k
            /\ f[1].type = "network_footprint"
            /\ \A i \in 1..n :
                  /\ f[2 * i].type = "station"
                  /\ f[2 * i].stationId = stations[i].stationId
                  /\ f[2 * i].geometry.coordinates = <<stations[i].lng, stations[i].lat>>
                  /\ f[2 * i + 1].type = "buffer_1km"
                  /\ f[2 * i + 1].stationId = stations[i].stationId
            /\ \A i \in 1..g : f[1 + 2 * n + i].type = "transit_desert_gap"
            /\ \A i \in 1..k :
                  /\ f[1 + 2 * n + g + i].type = "transit_desert_zone"
                  /\ f[1 + 2 * n + g + i].rank = i
            /\ \A i, j \in 1..Len(f) : i < j => FeatureClass(f[i]) <= FeatureClass(f[j])

\* a written document with two stations, a gap line and two ranked zones
C6_Witness ==
    /\ output.written
    /\ Len(stations) >= 2
    /\ Len(gaps_info) >= 1
    /\ Len(desert_zones) >= 2
    /\ stations[1].stationId # stations[2].stationId

\* the blocks of the script in the order they run
StageOrder == <<"load", "buffers", "bbox", "coverage", "group", "gaps",
                "isolation", "hull", "write", "report", "done">>

StageIndex(p) == CHOOSE i \in 1..Len(StageOrder) : StageOrder[i] = p

LoadError == error \in {"FileNotFoundError",
                        "ValueError: could not convert string to float"}

\* C8: the document is written only by the step that follows the hull
\* construction, which follows every earlier stage in script order; a run
\* that raised has written nothing; a load error ends the run before any
\* geometric computation.
C8_WriteAllOrNothing ==
    /\ [](pc = "aborted" => output = NoOutput)
    /\ [](output.written => pc \in {"report", "done"} /\ error = "none")
    /\ [](LoadError =>
            /\ pc = "aborted"
            /\ station_features = <<>> /\ stations_km = <<>> /\ covered_cells = 0
            /\ line_branch_groups = <<>> /\ gap_features = <<>>
            /\ desert_zones = <<>> /\ hull_pts = <<>>)
    /\ [][/\ output' # output => pc = "write" /\ pc' = "report" /\ output'.written
          /\ pc' # pc =>
                \/ pc' = "aborted" /\ error' # "none"
                \/ pc' = StageOrder[StageIndex(pc) + 1] /\ error' = "none"]_vars

\* a complete run that wrote the document
C8_Witness == pc = "done" /\ output.written /\ Len(stations) >= 2

-----------------------------------------------------------------------------
(* Branch grouping, checked under SpecGroups.                              *)

AfterGrouping == pc \in {"gaps", "isolation", "hull", "write", "report", "done"}

\* the length of the leading maximal run of capitals of an identifier
LeadRun(id) ==
    CHOOSE n \in 0..Len(id) :
        /\ \A i \in 1..n : IsUpper(id[i])
        /\ n < Len(id) => ~IsUpper(id[n + 1])

\* the branch prefix the specification describes
Prefix(id) == IF LeadRun(id) > 0 THEN SubSeq(id, 1, LeadRun(id)) ELSE id

SameBranch(s, u) ==
    s.lineNameEng = u.lineNameEng /\ Prefix(s.stationId) = Prefix(u.stationId)

\* every station is in exactly one group, two stations share a group iff they
\* have the same line and the same prefix, and every group lists its stations
\* in input order
StablePartition ==
    LET g == line_branch_groups
    IN  /\ \A k \in 1..Len(g) :
              /\ g[k].members # <<>>
              /\ g[k].members =
                     SelectSeq(stations, LAMBDA s : SameBranch(s, g[k].members[1]))
              /\ g[k].key = <<g[k].members[1].lineNameEng,
                              Prefix(g[k].members[1].stationId)>>
        /\ \A k, m \in 1..Len(g) : k # m => ~SameBranch(g[k].members[1], g[m].members[1])
        /\ \A i \in 1..Len(stations) :
              \E k \in 1..Len(g) : SameBranch(stations[i], g[k].members[1])

\* C2 (as claimed): the grouping is a stable partition by line and branch
\* prefix, and the branch prefix is never empty.
C2_StablePartitionNeverEmpty ==
    AfterGrouping =>
        /\ StablePartition
        /\ \A k \in 1..Len(line_branch_groups) : line_branch_groups[k].key[2] # <<>>

\* C2 (amended): the grouping is a stable partition by line and branch
\* prefix, and the branch prefix is empty only for an empty identifier.
C2_StablePartition ==
    AfterGrouping =>
        /\ StablePartition
        /\ \A k \in 1..Len(line_branch_groups) :
              line_branch_groups[k].key[2] = <<>> =>
                  \A i \in 1..Len(line_branch_groups[k].members) :
                      line_branch_groups[k].members[i].stationId = <<>>

\* N1, BL01, N2, BL02 interleaved in the input: two groups of two, in order
C2_Witness ==
    /\ AfterGrouping
    /\ Len(stations) = 4
    /\ stations[1].stationId = <<"N", "1">> /\ stations[1].lineNameEng = "Green"
    /\ stations[2].stationId = <<"B", "L", "0", "1">>
    /\ stations[3].stationId = <<"N", "2">> /\ stations[3].lineNameEng = "Green"
    /\ stations[4].stationId = <<"B", "L", "0", "2">>
    /\ Len(line_branch_groups) = 2
    /\ line_branch_groups[1].members = <<stations[1], stations[3]>>
    /\ line_branch_groups[2].members = <<stations[2], stations[4]>>

-----------------------------------------------------------------------------
(* Adjacent-gap scan, checked under SpecGaps.                              *)

AfterGapScan == pc \in {"isolation", "hull", "write", "report", "done"}

BranchOf(i) == <<stations[i].lineNameEng, Prefix(stations[i].stationId)>>

\* the pairs of input positions that are consecutive in one branch
ConsecutivePairs ==
    {pq \in (1..Len(stations)) \X (1..Len(stations)) :
        /\ pq[1] < pq[2]
        /\ BranchOf(pq[1]) = BranchOf(pq[2])
        /\ \A r \in (pq[1] + 1)..(pq[2] - 1) : BranchOf(r) # BranchOf(pq[1])}

PairDist(pq) ==
    haversine_km(stations[pq[1]].lat, stations[pq[1]].lng,
                 stations[pq[2]].lat, stations[pq[2]].lng)

\* the consecutive pairs at or above the 5 km threshold
GapPairs == {pq \in ConsecutivePairs : PairDist(pq) >= GAP_THRESHOLD_KM}

ExpectedInfo(pq) ==
    [line |-> BranchOf(pq[1])[1], branch |-> BranchOf(pq[1])[2],
     from |-> stations[pq[1]].nameEng, to |-> stations[pq[2]].nameEng,
     distance_km |-> Round2(PairDist(pq))]

ExpectedLine(pq) ==
    <<<<stations[pq[1]].lng, stations[pq[1]].lat>>,
      <<stations[pq[2]].lng, stations[pq[2]].lat>>>>

-----------------------------------------------------------------------------
(* Coverage scan, checked under SpecCoverage.                              *)

\* the state right after the grid scan
AfterCoverageScan == pc = "group"

GridCells == (0..(grid.n_rows - 1)) \X (0..(grid.n_cols - 1))

\* the centre of the cell (r, c) lies within the buffer radius of station i
CellInDisk(rc, i) == InDisk(CellCenter(rc[2]), CellCenter(rc[1]), stations_km[i])

ScanOrders(n) ==
    {f \in [1..n -> 1..n] : \A i, j \in 1..n : i # j => f[i] # f[j]}

\* C3 (as claimed): the covered-cell count of a station list is at least
\* the covered-cell count of the list without its last station.
C3_CoverageMonotone ==
    (AfterCoverageScan /\ Len(stations) >= 2) =>
        covered_cells >= CoveredCells(ButLast(stations))

\* C9: the covered-cell count is the number of cells whose centre lies in
\* at least one disk, it never exceeds the number of cells, and it is the
\* same in whatever order the stations are tested.
C9_CoveredCellCount ==
    AfterCoverageScan =>
        /\ covered_cells =
              Cardinality({rc \in GridCells :
                              \E i \in 1..Len(stations_km) : CellInDisk(rc, i)})
        /\ covered_cells <= grid.n_rows * grid.n_cols
        /\ \A f \in ScanOrders(Len(stations_km)) :
              GridScan([i \in 1..Len(stations_km) |-> stations_km[f[i]]],
                       grid.n_rows, grid.n_cols) = covered_cells

\* a scan over two stations at different places with a cell in both disks,
\* a cell in one disk only and a cell in none
C9_Witness ==
    /\ AfterCoverageScan
    /\ Len(stations_km) >= 2
    /\ stations_km[1] # stations_km[2]
    /\ \E rc \in GridCells : CellInDisk(rc, 1) /\ CellInDisk(rc, 2)
    /\ \E rc \in GridCells : CellInDisk(rc, 1) /\ ~CellInDisk(rc, 2)
    /\ covered_cells < grid.n_rows * grid.n_cols

-----------------------------------------------------------------------------
(* Isolation scan, checked under Spec.                                     *)

AfterIsolationScan == pc \in {"hull", "write", "report", "done"}

\* the sampled cells at or beyond the threshold, in sample order, and the
\* minimum distance of each
Candidates ==
    SelectSeq(SampleCells(grid),
              LAMBDA rc : MinDist(CellCenter(rc[2]), CellCenter(rc[1]), stations_km)
                              >= GAP_THRESHOLD_KM)

CandidateDist(i) ==
    MinDist(CellCenter(Candidates[i][2]), CellCenter(Candidates[i][1]), stations_km)

\* the rank of candidate i when the candidates are sorted descending by
\* minimum distance, equal distances in sample order
ClaimedRank(i) ==
    1 + Cardinality({j \in 1..Len(Candidates) :
                        \/ CandidateDist(j) > CandidateDist(i)
                        \/ CandidateDist(j) = CandidateDist(i) /\ j < i})

\* C7 (as claimed): the desert zones are the candidates sorted descending
\* by minimum distance, ties in sample order, cut to the first 10, ranked
\* 1..K in that order.
C7_ZonesSortedByDistance ==
    AfterIsolationScan =>
        /\ Len(desert_zones) =
              (IF Len(Candidates) < TOP_N THEN Len(Candidates) ELSE TOP_N)
        /\ \A i \in 1..Len(Candidates) :
              ClaimedRank(i) <= TOP_N =>
                  desert_zones[ClaimedRank(i)] =
                      DesertCell(grid, Candidates[i][1], Candidates[i][2],
                                 CandidateDist(i))

-----------------------------------------------------------------------------
(* Convex hull, checked under SpecHull.                                    *)

\* p lies on the closed segment from a to b
OnSegment(p, a, b) ==
    /\ cross(a, b, p) = 0
    /\ (p[1] - a[1]) * (p[1] - b[1]) <= 0
    /\ (p[2] - a[2]) * (p[2] - b[2]) <= 0

\* p lies in the closed triangle a, b, c
InTriangle(p, a, b, c) ==
    LET d1 == cross(a, b, p)
        d2 == cross(b, c, p)
        d3 == cross(c, a, p)
    IN  /\ cross(a, b, c) # 0
        /\ ~((d1 < 0 \/ d2 < 0 \/ d3 < 0) /\ (d1 > 0 \/ d2 > 0 \/ d3 > 0))

\* p is a strictly convex corner of P: not on a segment between, nor in a
\* triangle of, other points of P
IsCorner(p, P) ==
    LET Q == P \ {p}
    IN  /\ \A a, b \in Q : ~OnSegment(p, a, b)
        /\ \A a, b, c \in Q : ~InTriangle(p, a, b, c)

\* C5: the hull is exactly the strictly convex corners of the station
\* positions, each once, in counter-clockwise order.
C5_HullIsCorners ==
    AfterHull =>
        LET P == StationPoints
            n == Len(hull_pts)
        IN  /\ Range(hull_pts) = {p \in P : IsCorner(p, P)}
            /\ \A i, j \in 1..n : i # j => hull_pts[i] # hull_pts[j]
            /\ n >= 3 =>
                  \A i \in 1..n :
                      cross(hull_pts[i], hull_pts[(i % n) + 1],
                            hull_pts[((i + 1) % n) + 1]) > 0
            /\ (Cardinality(P) >= 2 /\ Collinear(P)) => n = 2

\* a square with a fifth station strictly inside: the hull is the 4 corners
C5_Witness ==
    /\ AfterHull
    /\ StationPoints = {<<10050000, 1370000>>, <<10050200, 1370000>>,
                         <<10050200, 1370200>>, <<10050000, 1370200>>,
                         <<10050100, 1370100>>}
    /\ hull_pts = <<<<10050000, 1370000>>, <<10050200, 1370000>>,
                     <<10050200, 1370200>>, <<10050000, 1370200>>>>

=============================================================================
